---------------------------- MODULE Spec2Model ----------------------------
(***************************************************************************)
(* Burnout-risk pipeline: synthetic data source, feature engineering,      *)
(* burnout classifier and the Flask layer that holds them in globals.      *)
(*                                                                         *)
(* Fixed-point encoding of the floats the code rounds with np.round:       *)
(*   hours with 2 decimals (total_active_hours, focus_hours) : hundredths  *)
(*   hours with 1 decimal  (sleep_hours, after_hours_work)   : tenths      *)
(*   stress_score, skill_level and every derived index       : hundredths  *)
(* employee_id 'EMP{i:03d}' is the ordinal i (zero padding makes the       *)
(* string order the numeric order), a date is a day number.                *)
(***************************************************************************)
EXTENDS Integers, Sequences, FiniteSets, TLC

VARIABLES
  sample, scored,                 \* one row's indices and its score
  table, out,                     \* input and result of engineer_features
  now, calls,                     \* wall clock (day number), generate calls
  pred, files, lastOp, lastFit, pickled, ready, trainCount,
                                  \* BurnoutPredictor instances and the disk
  pc, self, predictor, employee_data, heap, served
                                  \* app.py: request threads and its globals

featVars == <<table, out>>
riskVars == <<sample, scored>>
genVars  == <<now, calls>>
predVars == <<pred, files, lastOp, lastFit, pickled, ready, trainCount>>
appVars  == <<pc, self, predictor, employee_data, heap, served>>
vars == <<sample, scored, table, out, now, calls, pred, files, lastOp,
          lastFit, pickled, ready, trainCount, pc, self, predictor,
          employee_data, heap, served>>

None == "None"

Max(a, b) == IF a >= b THEN a ELSE b
Min(a, b) == IF a <= b THEN a ELSE b

(* np.round: round half to even.  n/d with d > 0, result an integer.       *)
NpRound(n, d) ==
  LET q == n \div d
      r == n % d
  IN  IF 2 * r < d THEN q
      ELSE IF 2 * r > d THEN q + 1
      ELSE IF q % 2 = 0 THEN q ELSE q + 1

(***************************************************************************)
(* data_generator.py: one daily row from the four draws that shape it.     *)
(* base_workload in hundredths, sleep in tenths, stress in hundredths.     *)
(***************************************************************************)
DailyRow(idx, emp, date, base_workload, meetings, sleep, stress, steps, skill) ==
  [ idx                |-> idx,
    employee_id        |-> emp,
    date               |-> date,
    total_active_hours |-> Max(400, Min(1400, base_workload)),
    num_meetings       |-> meetings,
    focus_hours        |-> Max(100, base_workload - meetings * 50),
    sleep_hours        |-> Max(40, Min(100, sleep)),
    stress_score       |-> Min(100, Max(0, stress)),
    steps              |-> steps,
    after_hours_work   |-> NpRound(Max(0, base_workload - 800), 10),
    skill_level        |-> skill ]

(***************************************************************************)
(* engineer_features, column by column.                                    *)
(***************************************************************************)
\* 0.4*active + 0.3*meetings + 0.3*after, in thousandths, rounded to 2 places
WorkloadIndex(r) ==
  NpRound(4 * r.total_active_hours + 300 * r.num_meetings
          + 30 * r.after_hours_work, 10)

\* np.where(sleep >= 7, 1.0, sleep/7)*0.5 + (1 - stress)*0.5
WellnessIndex(r) ==
  LET sleep70 == IF r.sleep_hours >= 70 THEN 70 ELSE r.sleep_hours
  IN  NpRound(10 * sleep70 + 7 * (100 - r.stress_score), 14)

\* np.where(active > 0, meetings*0.5/active, 0)
MeetingBurden(r) ==
  IF r.total_active_hours > 0
  THEN NpRound(5000 * r.num_meetings, r.total_active_hours)
  ELSE 0

NpSelectLastMatch(condlist, choicelist, default) ==
  IF \E i \in 1..Len(condlist) : condlist[i]
  THEN choicelist[CHOOSE i \in 1..Len(condlist) :
                    condlist[i] /\ \A j \in (i + 1)..Len(condlist) : ~condlist[j]]
  ELSE default

\* np.select(condlist, choicelist, default): the first true condition wins
NpSelect(condlist, choicelist, default) ==
  IF \E i \in 1..Len(condlist) : condlist[i]
  THEN choicelist[CHOOSE i \in 1..Len(condlist) :
                    condlist[i] /\ \A j \in 1..(i - 1) : ~condlist[j]]
  ELSE default

\* The select runs on floats; the outer np.round(..., 2) brings the result to
\* hundredths.  Value in 1e-4 units: 0.9 -> 9000, default 4*w + 60*(100 - s).
BurnoutRiskIndex(workload_index, wellness_index, avg_workload_7d) ==
  NpRound(
    NpSelect(
      << workload_index > 800 /\ wellness_index < 50,
         workload_index > 700 /\ wellness_index < 60,
         avg_workload_7d > 700 >>,
      << 9000, 7500, 6500 >>,
      4 * workload_index + 60 * (100 - wellness_index)),
    100)

BurnoutCategoryStrict(burnout_risk_index) ==
  NpSelect(<< burnout_risk_index > 70, burnout_risk_index > 50 >>,
           << "High", "Medium" >>, "Low")

BurnoutCategory(burnout_risk_index) ==
  NpSelect(<< burnout_risk_index >= 70, burnout_risk_index >= 50 >>,
           << "High", "Medium" >>, "Low")

\* 0.5*focus/active (0 when active = 0) + 0.3*skill + 0.2*(1 - meeting_burden)
ProductivityIndex(r, meeting_burden) ==
  IF r.total_active_hours > 0
  THEN NpRound(500 * r.focus_hours
               + (3 * r.skill_level + 2 * (100 - meeting_burden))
                 * r.total_active_hours,
               10 * r.total_active_hours)
  ELSE NpRound(3 * r.skill_level + 2 * (100 - meeting_burden), 10)


\* burnout_risk_index, burnout_category and productivity_index of one row whose
\* indices and rolling averages are already in place
ScoreColumns(r) ==
  LET risk == BurnoutRiskIndex(r.workload_index, r.wellness_index,
                               r.avg_workload_7d)
  IN  [ burnout_risk_index |-> risk,
        burnout_category   |-> BurnoutCategory(risk) ]

\* pd.to_datetime on a date: midnight of that day, as an hour count
ToDatetime(day) == day * 24

KeyLeq(a, b) ==
  \/ a.employee_id < b.employee_id
  \/ a.employee_id = b.employee_id /\ a.date <= b.date

\* df.sort_values(by=['employee_id', 'date']): a stable lexicographic sort;
\* every row keeps its index label
RECURSIVE SortValues(_)
SortValues(df) ==
  IF Len(df) <= 1 THEN df
  ELSE LET rest == SortValues(SubSeq(df, 1, Len(df) - 1))
           x    == df[Len(df)]
           k    == Cardinality({i \in 1..Len(rest) : KeyLeq(rest[i], x)})
       IN  SubSeq(rest, 1, k) \o <<x>> \o SubSeq(rest, k + 1, Len(rest))

\* rolling(window=7, min_periods=1)
WindowSize == 7

GroupRowsGlobal(df, e) == df

\* df.groupby('employee_id'): the rows of one employee, in the frame's order
GroupRows(df, e) ==
  LET Mine(r) == r.employee_id = e
  IN  SelectSeq(df, Mine)

RECURSIVE SeqSum(_)
SeqSum(s) == IF s = <<>> THEN 0 ELSE s[1] + SeqSum(Tail(s))

\* The trailing window of the row labelled k inside its group
RollingWindow(df, k, col) ==
  LET p == CHOOSE q \in 1..Len(df) : df[q].idx = k
      g == GroupRows(df, df[p].employee_id)
      i == CHOOSE j \in 1..Len(g) : g[j].idx = k
      w == SubSeq(g, Max(1, i - (WindowSize - 1)), i)
  IN  [j \in 1..Len(w) |-> w[j][col]]

Labels(df) == {df[p].idx : p \in 1..Len(df)}

\* .rolling(...).mean(), reset_index(level=0, drop=True), np.round(..., 2):
\* a series keyed by the rows' index labels
RollingMean(df, col) ==
  [k \in Labels(df) |->
     LET w == RollingWindow(df, k, col)
     IN  NpRound(SeqSum(w), Len(w))]

\* Nearest integer to sqrt(num/den), num >= 0, den > 0: coarse steps of 10,
\* then steps of 1
RECURSIVE SqrtSearch(_, _, _, _)
SqrtSearch(k, step, num, den) ==
  IF 4 * num < (2 * (k + step - 1) + 1) * (2 * (k + step - 1) + 1) * den
  THEN IF step = 1 THEN k ELSE SqrtSearch(k, 1, num, den)
  ELSE SqrtSearch(k + step, step, num, den)

RoundSqrt(num, den) == SqrtSearch(0, 10, num, den)

\* Sample standard deviation (ddof = 1) of n values in tenths with the given
\* sum and sum of squares, in hundredths; NaN below 2 values, fillna(0)
SampleStd(n, sum, sumsq) ==
  IF n < 2 THEN 0
  ELSE RoundSqrt(100 * (n * sumsq - sum * sum), n * (n - 1))

\* .rolling(...).std() ... .fillna(0), np.round(..., 2)
RollingStd(df, col) ==
  [k \in Labels(df) |->
     LET w == RollingWindow(df, k, col)
     IN  SampleStd(Len(w), SeqSum(w),
                   SeqSum([j \in 1..Len(w) |-> w[j] * w[j]]))]

EngineerFeatures(df) ==
  LET indexed == [i \in 1..Len(df) |->
                    [ workload_index |-> WorkloadIndex(df[i]),
                      wellness_index |-> WellnessIndex(df[i]),
                      meeting_burden |-> MeetingBurden(df[i]) ]
                    @@ [df[i] EXCEPT !.date = ToDatetime(@)]]
      sorted  == SortValues(indexed)
      avg_wl  == RollingMean(sorted, "workload_index")
      avg_we  == RollingMean(sorted, "wellness_index")
      sleep_v == RollingStd(sorted, "sleep_hours")
      rolled  == [i \in 1..Len(sorted) |->
                    [ avg_workload_7d   |-> avg_wl[sorted[i].idx],
                      avg_wellness_7d   |-> avg_we[sorted[i].idx],
                      sleep_variance_7d |-> sleep_v[sorted[i].idx] ]
                    @@ sorted[i]]
  IN  [i \in 1..Len(rolled) |->
         ScoreColumns(rolled[i])
         @@ [ productivity_index |->
                ProductivityIndex(rolled[i], rolled[i].meeting_burden) ]
         @@ rolled[i]]

(***************************************************************************)
(* Each component is checked on its own: the other components' variables   *)
(* rest at these values.                                                   *)
(***************************************************************************)
RiskIdle == sample = None /\ scored = <<>>
FeatIdle == table = <<>> /\ out = <<>>
GenIdle  == now = 0 /\ calls = <<>>
PredIdle == /\ pred = None /\ files = None /\ lastOp = None /\ lastFit = None
            /\ pickled = None /\ ready = None /\ trainCount = 0
AppIdle  == /\ pc = None /\ self = None /\ predictor = None
            /\ employee_data = None /\ heap = None /\ served = 0

RiskOnly == UNCHANGED <<featVars, genVars, predVars, appVars>>
FeatOnly == UNCHANGED <<riskVars, genVars, predVars, appVars>>
GenOnly  == UNCHANGED <<riskVars, featVars, predVars, appVars>>
PredOnly == UNCHANGED <<riskVars, featVars, genVars, appVars>>
AppOnly  == UNCHANGED <<riskVars, featVars, genVars, predVars>>

(***************************************************************************)
(* Scoring one row: the branch rule and the category step function on      *)
(* indices drawn around the thresholds.                                    *)
(***************************************************************************)
WorkloadSamples == (690..810) \cup {160, 190, 2020}
WellnessSamples == 0..100
AvgSamples      == {160, 699, 700, 701, 2020}


InitRisk ==
  /\ sample \in [ workload_index  : WorkloadSamples,
                  wellness_index  : WellnessSamples,
                  avg_workload_7d : AvgSamples ]
  /\ scored = <<>>
  /\ FeatIdle /\ GenIdle /\ PredIdle /\ AppIdle

\* scored holds the scored row once the row has been scored
ScoreRow ==
  /\ scored = <<>>
  /\ scored' = <<ScoreColumns(sample)>>
  /\ UNCHANGED sample
  /\ RiskOnly

(***************************************************************************)
(* engineer_features on tables of two employees.  EmpB sorts before EmpA,  *)
(* so a rolling pass that ignored the grouping would run from EmpB's rows  *)
(* into EmpA's.                                                            *)
(***************************************************************************)
EmpA == 1
EmpB == 0

MaxRowsA == 8
MaxRowsB == 1

\* The draws behind a row: base_workload, meetings, sleep, stress
Calm  == [base |-> 400,  meetings |-> 0,  sleep |-> 80, stress |-> 0]
Storm == [base |-> 400,  meetings |-> 62, sleep |-> 70, stress |-> 80]
Spent == [base |-> 1500, meetings |-> 5,  sleep |-> 40, stress |-> 100]

DrawsOf(emp, date) ==
  IF emp = EmpB THEN Spent
  ELSE IF date % 4 = 0 THEN Storm ELSE Calm

\* A row of the daily table joined with its employee's profile; the index
\* label is unique per (employee, date)
TableRow(emp, date) ==
  LET d == DrawsOf(emp, date)
  IN  DailyRow(10 * date + emp, emp, date, d.base, d.meetings, d.sleep,
               d.stress, 7000, 80)

RowsOf(df, e) == {p \in 1..Len(df) : df[p].employee_id = e}

Without(df, p) == SubSeq(df, 1, p - 1) \o SubSeq(df, p + 1, Len(df))

InitFeatures ==
  /\ table = <<>> /\ out = <<>>
  /\ RiskIdle /\ GenIdle /\ PredIdle /\ AppIdle

\* The caller adds the next day's row of EmpA at either end of the table
AddRowA(front) ==
  /\ Cardinality(RowsOf(table, EmpA)) < MaxRowsA
  /\ LET r == TableRow(EmpA, Cardinality(RowsOf(table, EmpA)) + 1)
     IN  table' = IF front THEN <<r>> \o table ELSE Append(table, r)
  /\ out' = <<>>
  /\ FeatOnly

InsertRowB(pos, date) ==
  /\ Cardinality(RowsOf(table, EmpB)) < MaxRowsB
  /\ \A p \in RowsOf(table, EmpB) : table[p].date # date
  /\ table' = SubSeq(table, 1, pos) \o <<TableRow(EmpB, date)>>
              \o SubSeq(table, pos + 1, Len(table))
  /\ out' = <<>>
  /\ FeatOnly

RemoveRowB(pos) ==
  /\ pos \in RowsOf(table, EmpB)
  /\ table' = Without(table, pos)
  /\ out' = <<>>
  /\ FeatOnly

\* Reordering: a row of EmpB changes place with its neighbour
SwapRows(pos) ==
  /\ pos \in 1..(Len(table) - 1)
  /\ table[pos].employee_id = EmpB \/ table[pos + 1].employee_id = EmpB
  /\ table' = [table EXCEPT ![pos] = table[pos + 1], ![pos + 1] = table[pos]]
  /\ out' = <<>>
  /\ FeatOnly

Engineer ==
  /\ table # <<>>
  /\ out = <<>>
  /\ out' = EngineerFeatures(table)
  /\ UNCHANGED table
  /\ FeatOnly

(***************************************************************************)
(* generate_employee_data.  np.random is a deterministic stream restarted  *)
(* by np.random.seed(42) at every call: draw k of a call is a function of  *)
(* the seed and k alone.  A small congruential generator stands for the    *)
(* Mersenne Twister, and each distribution is a scaling of the raw draw.   *)
(***************************************************************************)
Seed == 42

RECURSIVE RawDraw(_)
RawDraw(k) == IF k = 0 THEN Seed ELSE (RawDraw(k - 1) * 75 + 74) % 65537

Departments == <<"Engineering", "Sales", "Marketing", "HR", "Operations">>
Roles       == <<"Junior", "Mid", "Senior", "Lead">>

\* One entry of employees: four draws, in the order the dict literal makes them
EmployeeProfile(i) ==
  [ employee_id  |-> i,
    name         |-> i,
    department   |-> Departments[(RawDraw(4 * i + 1) % 5) + 1],
    role         |-> Roles[(RawDraw(4 * i + 2) % 4) + 1],
    tenure_years |-> 5 + (RawDraw(4 * i + 3) % 76),
    skill_level  |-> 60 + (RawDraw(4 * i + 4) % 41) ]

\* date.weekday() < 5, day 0 being a Monday
IsWeekday(date) == date % 7 < 5

\* The dates start_date + day, day in range(num_days), that pass the filter
WeekdayDates(start_date, num_days) ==
  SelectSeq([day \in 1..num_days |-> start_date + day - 1], IsWeekday)

\* The j-th row appended to daily_data (j from 1), merged with its profile.
\* Its five draws follow the 4*num_employees profile draws and the draws of
\* the rows before it.
MergedRow(j, num_employees, dates) ==
  LET emp   == (j - 1) \div Len(dates)
      date  == dates[((j - 1) % Len(dates)) + 1]
      first == 4 * num_employees + 5 * (j - 1)
      daily == DailyRow(j - 1, emp, date,
                        RawDraw(first + 1) % 1201,
                        RawDraw(first + 2) % 11,
                        40 + (RawDraw(first + 3) % 61),
                        RawDraw(first + 4) % 101,
                        3000 + (RawDraw(first + 5) % 8001),
                        EmployeeProfile(emp).skill_level)
  IN  [ name         |-> EmployeeProfile(emp).name,
        department   |-> EmployeeProfile(emp).department,
        role         |-> EmployeeProfile(emp).role,
        tenure_years |-> EmployeeProfile(emp).tenure_years ] @@ daily

\* generate_employee_data(num_employees, num_days) called on day today.
\* With no weekday in the window daily_df has no columns and the merge on
\* 'employee_id' raises KeyError.
GenerateEmployeeData(num_employees, num_days, today) ==
  LET start_date == today - num_days
      dates      == WeekdayDates(start_date, num_days)
  IN  IF dates = <<>>
      THEN [raised |-> "KeyError", rows |-> <<>>]
      ELSE [raised |-> "",
            rows   |-> EngineerFeatures(
                         [j \in 1..(num_employees * Len(dates)) |->
                            MergedRow(j, num_employees, dates)])]

MaxNow       == 9
MaxCalls     == 2
MaxEmployees == 2
MaxDays      == 3

InitGenerator ==
  /\ now = 0 /\ calls = <<>>
  /\ RiskIdle /\ FeatIdle /\ PredIdle /\ AppIdle

\* A day passes
Tick ==
  /\ now < MaxNow
  /\ now' = now + 1
  /\ UNCHANGED calls
  /\ GenOnly

Generate(num_employees, num_days) ==
  /\ Len(calls) < MaxCalls
  /\ calls' = Append(calls,
                     [ num_employees |-> num_employees,
                       num_days      |-> num_days,
                       result        |-> GenerateEmployeeData(num_employees,
                                                              num_days, now) ])
  /\ UNCHANGED now
  /\ GenOnly

(***************************************************************************)
(* ml_model.py: BurnoutPredictor.  An object is a record; "by" is the      *)
(* train call that constructed it (its identity).  The fitted parameters   *)
(* of the scikit-learn estimators are abstracted to what predict reads:    *)
(* the encoder's sorted classes, the scaler's mean, the forest's number of *)
(* classes and the data it was fitted on.                                  *)
(***************************************************************************)
NoneObj == [cls |-> "NoneType"]

FeatureCols ==
  << "workload_index", "wellness_index", "meeting_burden", "num_meetings",
     "focus_hours", "sleep_hours", "stress_score", "after_hours_work",
     "avg_workload_7d", "avg_wellness_7d", "sleep_variance_7d",
     "tenure_years", "skill_level" >>

\* BurnoutPredictor.__init__
NewPredictor ==
  [ model         |-> NoneObj,
    scaler        |-> NoneObj,
    label_encoder |-> NoneObj,
    feature_cols  |-> FeatureCols ]

\* Tables a caller may pass to train.  columns: the columns train reads that
\* the table has; counts: rows per burnout_category after dropna; inf / nan:
\* an infinite / a missing value in a feature column other than
\* avg_workload_7d; mean: the training partition's feature mean.
AllColumns == {"avg_workload_7d", "burnout_category", "features"}

Dataset(name, columns, high, low, medium, inf, nan, mean) ==
  [ name |-> name, columns |-> columns,
    counts |-> [High |-> high, Low |-> low, Medium |-> medium],
    inf |-> inf, nan |-> nan, mean |-> mean ]

Datasets ==
  { Dataset("three_classes", AllColumns, 5, 5, 5, FALSE, FALSE, 1),
    Dataset("no_high", AllColumns, 0, 5, 5, FALSE, FALSE, 2),
    Dataset("lone_high", AllColumns, 1, 5, 5, FALSE, FALSE, 1),
    Dataset("no_rolling_column", AllColumns \ {"avg_workload_7d"},
            5, 5, 5, FALSE, FALSE, 1),
    Dataset("no_category_column", AllColumns \ {"burnout_category"},
            5, 5, 5, FALSE, FALSE, 1),
    Dataset("infinite_feature", AllColumns, 5, 5, 5, TRUE, FALSE, 1),
    Dataset("missing_feature", AllColumns, 5, 5, 5, FALSE, TRUE, 1) }

\* LabelEncoder.fit: classes_ is the sorted list of the labels present
SortedClasses(counts) ==
  (IF counts.High > 0 THEN <<"High">> ELSE <<>>)
  \o (IF counts.Low > 0 THEN <<"Low">> ELSE <<>>)
  \o (IF counts.Medium > 0 THEN <<"Medium">> ELSE <<>>)

\* train_test_split(test_size=0.2, stratify=y) raises ValueError when a class
\* has fewer than 2 rows or a partition is smaller than the number of classes
SplitRaises(counts) ==
  LET n       == counts.High + counts.Low + counts.Medium
      n_test  == (2 * n + 9) \div 10
      classes == Len(SortedClasses(counts))
  IN  \/ \E c \in DOMAIN counts : counts[c] = 1
      \/ n_test < classes
      \/ n - n_test < classes

\* The assignments of BurnoutPredictor.train, one operator per statement;
\* tid names the train call
EncoderNew(p, tid) ==
  [p EXCEPT !.label_encoder = [cls |-> "LabelEncoder", by |-> tid,
                               fitted |-> FALSE, classes |-> <<>>]]

EncoderFit(p, ds) ==
  [p EXCEPT !.label_encoder.fitted = TRUE,
            !.label_encoder.classes = SortedClasses(ds.counts)]

ScalerNew(p, tid) ==
  [p EXCEPT !.scaler = [cls |-> "StandardScaler", by |-> tid,
                        fitted |-> FALSE, mean |-> 0]]

ScalerFit(p, ds) ==
  [p EXCEPT !.scaler.fitted = TRUE, !.scaler.mean = ds.mean]

ModelNew(p, tid) ==
  [p EXCEPT !.model = [cls |-> "RandomForestClassifier", by |-> tid,
                       fitted |-> FALSE, n_classes |-> 0, fit_on |-> ""]]

\* The forest is fitted on labels of the encoder of this call
ModelFit(p, ds) ==
  [p EXCEPT !.model.fitted = TRUE,
            !.model.n_classes = Len(SortedClasses(ds.counts)),
            !.model.fit_on = ds.name]

\* BurnoutPredictor.train(features_df), statement by statement.  The result
\* is the predictor as the call leaves it and the exception it raised ("" when
\* it returned).
TrainCall(p, ds, tid) ==
  LET p1 == EncoderNew(p, tid)
      p2 == EncoderFit(p1, ds)
      p3 == ScalerNew(p2, tid)
      p4 == ScalerFit(p3, ds)
      p5 == ModelNew(p4, tid)
      p6 == ModelFit(p5, ds)
  IN  IF "avg_workload_7d" \notin ds.columns
        THEN [self |-> p, raised |-> "KeyError"]             \* dropna
      ELSE IF "burnout_category" \notin ds.columns
        THEN [self |-> p1, raised |-> "KeyError"]            \* fit_transform
      ELSE IF "features" \notin ds.columns
        THEN [self |-> p2, raised |-> "KeyError"]            \* X = ...
      ELSE IF SplitRaises(ds.counts)
        THEN [self |-> p2, raised |-> "ValueError"]          \* train_test_split
      ELSE IF ds.inf
        THEN [self |-> p3, raised |-> "ValueError"]          \* scaler.fit_transform
      ELSE IF ds.nan
        THEN [self |-> p5, raised |-> "ValueError"]          \* model.fit
      ELSE [self |-> p6, raised |-> ""]

NotTrained == "ValueError: Model not trained yet"

\* StandardScaler.transform with the fitted mean
Transform(scaler, x) == x - scaler.mean

\* RandomForestClassifier.predict and predict_proba, abstracted: a label in
\* 0..n_classes-1 and, per class, a vote share in percent, both functions of
\* the fitted forest and the scaled row only
ForestPredict(model, x_scaled) ==
  (x_scaled + Len(model.fit_on)) % model.n_classes

ForestProba(model, x_scaled, class) ==
  IF ForestPredict(model, x_scaled) = class THEN 60
  ELSE 40 \div (model.n_classes - 1)

IndexOf(seq, v) == CHOOSE k \in 1..Len(seq) : seq[k] = v

PredictCallRefits(p, x) ==
  [ self   |-> [p EXCEPT !.scaler = [cls |-> "StandardScaler",
                                     by  |-> IF p.scaler = NoneObj THEN 0
                                             ELSE p.scaler.by,
                                     fitted |-> TRUE, mean |-> x]],
    raised |-> "", table |-> <<>> ]

\* BurnoutPredictor.predict on a one-row table with feature value x: the
\* predictor as the call leaves it, the exception raised and the two columns
\* appended to the row
PredictCall(p, x) ==
  LET Raise(e)  == [self |-> p, raised |-> e, table |-> <<>>]
      x_scaled  == Transform(p.scaler, x)
      label     == ForestPredict(p.model, x_scaled)
      classes   == p.label_encoder.classes
      high      == IndexOf(classes, "High") - 1
      has_high  == \E k \in 1..Len(classes) : classes[k] = "High"
  IN  IF p.model = NoneObj THEN Raise(NotTrained)
      ELSE IF p.scaler = NoneObj THEN Raise("AttributeError")
      ELSE IF ~p.scaler.fitted THEN Raise("NotFittedError")
      ELSE IF ~p.model.fitted THEN Raise("NotFittedError")
      ELSE IF p.label_encoder = NoneObj THEN Raise("AttributeError")
      ELSE IF ~p.label_encoder.fitted THEN Raise("NotFittedError")
      ELSE IF label >= Len(classes) THEN Raise("ValueError")
      ELSE IF has_high /\ high >= p.model.n_classes THEN Raise("IndexError")
      ELSE [ self   |-> p,
             raised |-> "",
             table  |-> << [ prediction_category   |-> classes[label + 1],
                             prediction_proba_high |->
                               IF has_high
                               THEN ForestProba(p.model, x_scaled, high)
                               ELSE 0 ] >> ]

PickleDumpNoScaler(p) ==
  << <<"model", p.model>>, <<"scaler", NoneObj>>,
     <<"label_encoder", p.label_encoder>>,
     <<"feature_cols", p.feature_cols>> >>

\* pickle.dump of the dict of the four fields: the file's content
PickleDump(p) ==
  << <<"model", p.model>>, <<"scaler", p.scaler>>,
     <<"label_encoder", p.label_encoder>>,
     <<"feature_cols", p.feature_cols>> >>

\* pickle.load: the dict back from the file's content
PickleLoad(blob) ==
  [key \in {blob[k][1] : k \in 1..Len(blob)} |->
     blob[CHOOSE k \in 1..Len(blob) : blob[k][1] = key][2]]

NoFile == <<>>

\* BurnoutPredictor.load: the predictor as the call leaves it
LoadCall(p, content) ==
  IF content # NoFile
  THEN LET data == PickleLoad(content)
       IN  [ model         |-> data["model"],
             scaler        |-> data["scaler"],
             label_encoder |-> data["label_encoder"],
             feature_cols  |-> data["feature_cols"] ]
  ELSE p

Predictors == {"P", "Q"}
FilePaths  == {"model.pkl"}
MaxTrains  == 3
MaxFeature == 1

\* lastOp: the call made last.  was_ready: a train had completed or a load
\* had restored a bundle on that instance before the call.
Op(name, i, exc, cols, was, f, did) ==
  [ op |-> name, inst |-> i, raised |-> exc, table |-> cols,
    was_ready |-> was, file |-> f, restored |-> did ]

InitPredictor ==
  /\ pred = [i \in Predictors |-> NewPredictor]
  /\ files = [f \in FilePaths |-> NoFile]
  /\ lastOp = Op("__init__", "P", "", <<>>, FALSE, "", FALSE)
  /\ lastFit = [i \in Predictors |-> NewPredictor]
  /\ pickled = [f \in FilePaths |-> NewPredictor]
  /\ ready = [i \in Predictors |-> FALSE]
  /\ trainCount = 0
  /\ RiskIdle /\ FeatIdle /\ GenIdle /\ AppIdle

Train(i, ds) ==
  /\ trainCount < MaxTrains
  /\ LET r == TrainCall(pred[i], ds, trainCount + 1)
     IN  /\ pred' = [pred EXCEPT ![i] = r.self]
         /\ lastFit' = [lastFit EXCEPT ![i] = r.self]
         /\ ready' = [ready EXCEPT ![i] = @ \/ r.raised = ""]
         /\ lastOp' = Op("train", i, r.raised, <<>>, ready[i], "", FALSE)
  /\ trainCount' = trainCount + 1
  /\ UNCHANGED <<files, pickled>>
  /\ PredOnly

Predict(i, x) ==
  /\ LET r == PredictCall(pred[i], x)
     IN  /\ pred' = [pred EXCEPT ![i] = r.self]
         /\ lastOp' = Op("predict", i, r.raised, r.table, ready[i], "", FALSE)
  /\ UNCHANGED <<files, lastFit, pickled, ready, trainCount>>
  /\ PredOnly

\* pickled remembers the predictor each file was written from
Save(i, f) ==
  /\ files' = [files EXCEPT ![f] = PickleDump(pred[i])]
  /\ pickled' = [pickled EXCEPT ![f] = pred[i]]
  /\ lastOp' = Op("save", i, "", <<>>, ready[i], f, FALSE)
  /\ UNCHANGED <<pred, lastFit, ready, trainCount>>
  /\ PredOnly

Load(i, f) ==
  /\ pred' = [pred EXCEPT ![i] = LoadCall(@, files[f])]
  /\ lastFit' = [lastFit EXCEPT ![i] = LoadCall(pred[i], files[f])]
  /\ ready' = [ready EXCEPT ![i] = @ \/ files[f] # NoFile]
  /\ lastOp' = Op("load", i, "", <<>>, ready[i], f, files[f] # NoFile)
  /\ UNCHANGED <<files, pickled, trainCount>>
  /\ PredOnly

(***************************************************************************)
(* app.py: initialize_data run by request threads (app.run serves each     *)
(* request on its own thread) on the globals employee_data and predictor.  *)
(* A thread's step is one statement of initialize_data or of the method it *)
(* is in; heap holds the BurnoutPredictor instances, self[t] the instance  *)
(* bound to self in the method thread t runs.                              *)
(***************************************************************************)
NumThreads  == 2
MaxRequests == 3

Threads == 1..NumThreads

\* The table generate_employee_data returns at startup and on a refresh
Generated == Dataset("generated", AllColumns, 5, 5, 5, FALSE, FALSE, 1)

TrainSteps   == {"train_encoder", "train_scaler", "train_model", "train_fit"}
PredictSteps == {"predict_check", "predict_run"}

\* The module is imported: initialize_data() has run once, alone
InitApp ==
  /\ heap = << TrainCall(NewPredictor, Generated, 0).self >>
  /\ predictor = 1
  /\ employee_data = [of |-> 0, predictions |-> TRUE]
  /\ pc = [t \in Threads |-> "idle"]
  /\ self = [t \in Threads |-> 0]
  /\ served = 0
  /\ RiskIdle /\ FeatIdle /\ GenIdle /\ PredIdle

Goto(t, label) == pc' = [pc EXCEPT ![t] = label]

\* POST /api/refresh arrives: refresh_data calls initialize_data
RefreshData(t) ==
  /\ pc[t] = "idle" /\ served < MaxRequests
  /\ served' = served + 1
  /\ Goto(t, "generate")
  /\ UNCHANGED <<self, predictor, employee_data, heap>>
  /\ AppOnly

\* employee_data = generate_employee_data(num_employees=50, num_days=30)
GenerateData(t) ==
  /\ pc[t] = "generate"
  /\ employee_data' = [of |-> t, predictions |-> FALSE]
  /\ Goto(t, "construct")
  /\ UNCHANGED <<self, predictor, heap, served>>
  /\ AppOnly

\* predictor = BurnoutPredictor()
Construct(t) ==
  /\ pc[t] = "construct"
  /\ heap' = Append(heap, NewPredictor)
  /\ predictor' = Len(heap) + 1
  /\ Goto(t, "train_call")
  /\ UNCHANGED <<self, employee_data, served>>
  /\ AppOnly

\* predictor.train(employee_data): the global is read, train is entered
TrainEnter(t) ==
  /\ pc[t] = "train_call"
  /\ self' = [self EXCEPT ![t] = predictor]
  /\ Goto(t, "train_encoder")
  /\ UNCHANGED <<predictor, employee_data, heap, served>>
  /\ AppOnly

TrainEncoder(t) ==
  /\ pc[t] = "train_encoder"
  /\ heap' = [heap EXCEPT ![self[t]] = EncoderFit(EncoderNew(@, t), Generated)]
  /\ Goto(t, "train_scaler")
  /\ UNCHANGED <<self, predictor, employee_data, served>>
  /\ AppOnly

TrainScaler(t) ==
  /\ pc[t] = "train_scaler"
  /\ heap' = [heap EXCEPT ![self[t]] = ScalerFit(ScalerNew(@, t), Generated)]
  /\ Goto(t, "train_model")
  /\ UNCHANGED <<self, predictor, employee_data, served>>
  /\ AppOnly

TrainModel(t) ==
  /\ pc[t] = "train_model"
  /\ heap' = [heap EXCEPT ![self[t]] = ModelNew(@, t)]
  /\ Goto(t, "train_fit")
  /\ UNCHANGED <<self, predictor, employee_data, served>>
  /\ AppOnly

\* self.model.fit(...) completes and train returns
TrainFit(t) ==
  /\ pc[t] = "train_fit"
  /\ heap' = [heap EXCEPT ![self[t]] = ModelFit(@, Generated)]
  /\ Goto(t, "predict_call")
  /\ UNCHANGED <<self, predictor, employee_data, served>>
  /\ AppOnly

\* predictor.predict(employee_data): the global is read, predict is entered
PredictEnter(t) ==
  /\ pc[t] = "predict_call"
  /\ self' = [self EXCEPT ![t] = predictor]
  /\ Goto(t, "predict_check")
  /\ UNCHANGED <<predictor, employee_data, heap, served>>
  /\ AppOnly

\* if self.model is None: raise ValueError("Model not trained yet")
PredictCheck(t) ==
  /\ pc[t] = "predict_check"
  /\ Goto(t, IF heap[self[t]].model = NoneObj THEN "idle" ELSE "predict_run")
  /\ UNCHANGED <<self, predictor, employee_data, heap, served>>
  /\ AppOnly

\* The rest of predict on the instance as it is now; an exception ends the
\* request, a returned table goes on to the assignment
PredictRun(t) ==
  /\ pc[t] = "predict_run"
  /\ Goto(t, IF PredictCall(heap[self[t]], 1).raised = "" THEN "store"
             ELSE "idle")
  /\ UNCHANGED <<self, predictor, employee_data, heap, served>>
  /\ AppOnly

\* employee_data = <the table predict returned>; the request is answered
StoreData(t) ==
  /\ pc[t] = "store"
  /\ employee_data' = [of |-> t, predictions |-> TRUE]
  /\ Goto(t, "idle")
  /\ UNCHANGED <<self, predictor, heap, served>>
  /\ AppOnly

(***************************************************************************)
(* Specifications, one per component.                                      *)
(***************************************************************************)
NextRisk == ScoreRow

SpecRisk == InitRisk /\ [][NextRisk]_vars

NextFeatures ==
  \/ \E front \in BOOLEAN : AddRowA(front)
  \/ \E pos \in 0..Len(table), date \in 1..MaxRowsB : InsertRowB(pos, date)
  \/ \E pos \in 1..Len(table) : RemoveRowB(pos)
  \/ \E pos \in 1..Len(table) : SwapRows(pos)
  \/ Engineer

SpecFeatures == InitFeatures /\ [][NextFeatures]_vars

NextGenerator ==
  \/ Tick
  \/ \E n \in 1..MaxEmployees, d \in 1..MaxDays : Generate(n, d)

SpecGenerator == InitGenerator /\ [][NextGenerator]_vars

NextPredictor ==
  \/ \E i \in Predictors, ds \in Datasets : Train(i, ds)
  \/ \E i \in Predictors, x \in 0..MaxFeature : Predict(i, x)
  \/ \E i \in Predictors, f \in FilePaths : Save(i, f)
  \/ \E i \in Predictors, f \in FilePaths : Load(i, f)

SpecPredictor == InitPredictor /\ [][NextPredictor]_vars

NextApp ==
  \E t \in Threads :
    \/ RefreshData(t)
    \/ GenerateData(t)
    \/ Construct(t)
    \/ TrainEnter(t)
    \/ TrainEncoder(t)
    \/ TrainScaler(t)
    \/ TrainModel(t)
    \/ TrainFit(t)
    \/ PredictEnter(t)
    \/ PredictCheck(t)
    \/ PredictRun(t)
    \/ StoreData(t)

SpecApp == InitApp /\ [][NextApp]_vars

(***************************************************************************)
(* Claims.                                                                 *)
(***************************************************************************)
\* C4: burnout_risk_index is first-match-wins over the ordered branches:
\* 0.90 if workload_index > 8 and wellness_index < 0.5; else 0.75 if
\* workload_index > 7 and wellness_index < 0.6; else 0.65 if
\* avg_workload_7d > 7; else round(workload_index/10*0.4
\* + (1 - wellness_index)*0.6, 2).  An earlier matching branch decides the
\* result whatever avg_workload_7d is.
C4_FirstMatchWins ==
  scored # <<>> =>
    scored[1].burnout_risk_index =
      IF sample.workload_index > 800 /\ sample.wellness_index < 50 THEN 90
      ELSE IF sample.workload_index > 700 /\ sample.wellness_index < 60 THEN 75
      ELSE IF sample.avg_workload_7d > 700 THEN 65
      ELSE NpRound(4 * sample.workload_index
                   + 60 * (100 - sample.wellness_index), 100)

\* A scored row on which branches a, b and c all match and a has won
C4_Witness ==
  /\ scored # <<>>
  /\ sample.workload_index > 800 /\ sample.wellness_index < 50
  /\ sample.avg_workload_7d > 700
  /\ scored[1].burnout_risk_index = 90

\* C5: burnout_category is High exactly when burnout_risk_index >= 0.70,
\* Medium exactly when 0.50 <= burnout_risk_index < 0.70, Low exactly when
\* burnout_risk_index < 0.50.
C5_CategorySteps ==
  scored # <<>> =>
    /\ scored[1].burnout_category = "High" <=> scored[1].burnout_risk_index >= 70
    /\ scored[1].burnout_category = "Medium" <=>
         (50 <= scored[1].burnout_risk_index /\ scored[1].burnout_risk_index < 70)
    /\ scored[1].burnout_category = "Low" <=> scored[1].burnout_risk_index < 50

\* A row scored by the default formula landing exactly on the 0.70 threshold
C5_Witness ==
  /\ scored # <<>>
  /\ sample.workload_index <= 700 /\ sample.avg_workload_7d <= 700
  /\ scored[1].burnout_risk_index = 70
  /\ scored[1].burnout_category = "High"

\* The rows of employee e in df that are among the 7 most recent by date up
\* to and including date d
RecentOwn(df, e, d) ==
  {p \in RowsOf(df, e) :
     /\ df[p].date <= d
     /\ Cardinality({q \in RowsOf(df, e) :
                       df[p].date < df[q].date /\ df[q].date <= d}) < 7}

RECURSIVE SumOver(_, _, _)
SumOver(df, P, col) ==
  IF P = {} THEN 0
  ELSE LET p == CHOOSE q \in P : TRUE
       IN  df[p][col] + SumOver(df, P \ {p}, col)

WorkloadColumn(df) ==
  [p \in 1..Len(df) |-> [v |-> WorkloadIndex(df[p])]]
WellnessColumn(df) ==
  [p \in 1..Len(df) |-> [v |-> WellnessIndex(df[p])]]
SleepColumn(df) ==
  [p \in 1..Len(df) |-> [v |-> df[p].sleep_hours,
                         sq |-> df[p].sleep_hours * df[p].sleep_hours]]

\* C6: on every row, avg_workload_7d, avg_wellness_7d and sleep_variance_7d
\* are computed from the same employee's rows only, namely the up to 7 most
\* recent by ascending date including the row itself; so they are the same
\* whatever rows of another employee are inserted, removed or reordered.
C6_RollingPerEmployee ==
  out # <<>> =>
    \A i \in 1..Len(out) :
      LET p   == CHOOSE q \in 1..Len(table) : table[q].idx = out[i].idx
          own == RecentOwn(table, table[p].employee_id, table[p].date)
          n   == Cardinality(own)
      IN  /\ out[i].employee_id = table[p].employee_id
          /\ out[i].avg_workload_7d =
               NpRound(SumOver(WorkloadColumn(table), own, "v"), n)
          /\ out[i].avg_wellness_7d =
               NpRound(SumOver(WellnessColumn(table), own, "v"), n)
          /\ out[i].sleep_variance_7d =
               SampleStd(n, SumOver(SleepColumn(table), own, "v"),
                         SumOver(SleepColumn(table), own, "sq"))

\* engineer_features has run on a table where EmpA has more rows than the
\* window holds, out of date order, with a row of EmpB between them
C6_Witness ==
  /\ out # <<>>
  /\ Cardinality(RowsOf(table, EmpA)) > 7
  /\ \E a \in RowsOf(table, EmpA), b \in RowsOf(table, EmpB),
        c \in RowsOf(table, EmpA) :
        a < b /\ b < c /\ table[a].date > table[c].date

\* C7: on every row of a table built from values the generator can draw,
\* burnout_risk_index lies in [0, 1].
C7_RiskInUnitInterval ==
  out # <<>> =>
    \A i \in 1..Len(out) :
      0 <= out[i].burnout_risk_index /\ out[i].burnout_risk_index <= 100

\* C3: generate_employee_data is deterministic: any two calls with the same
\* num_employees and num_days return identical tables (same rows, dates and
\* values), regardless of when each call is made.
C3_GenerateDeterministic ==
  \A i, j \in 1..Len(calls) :
    (/\ calls[i].num_employees = calls[j].num_employees
     /\ calls[i].num_days = calls[j].num_days
     /\ calls[i].result.raised = "" /\ calls[j].result.raised = "")
    => calls[i].result.rows = calls[j].result.rows

\* C1: while no train call has completed and no load has restored a bundle
\* on a predictor, every predict call on it fails with 'Model not trained
\* yet' and returns no table.
C1_UnreadyPredictFails ==
  (lastOp.op = "predict" /\ ~lastOp.was_ready)
  => (lastOp.raised = NotTrained /\ lastOp.table = <<>>)

SameTrainCall(p) ==
  /\ p.model # NoneObj /\ p.scaler # NoneObj /\ p.label_encoder # NoneObj
  /\ p.model.by = p.scaler.by
  /\ p.scaler.by = p.label_encoder.by

\* C2: after a train call on an already-trained predictor, returned or
\* raised, the classifier, the scaler and the label encoder all come from
\* the same train call, never a mix.
C2_TrainReplacesAtomically ==
  (lastOp.op = "train" /\ lastOp.was_ready)
  => SameTrainCall(pred[lastOp.inst])

\* C8: after P.save(f) and Q.load(f), Q's model, scaler, label_encoder and
\* feature_cols equal those P had when it saved, and Q.predict gives what
\* that P gave on the same rows.
C8_SaveLoadRoundTrip ==
  (lastOp.op = "load" /\ lastOp.restored)
  => /\ pred[lastOp.inst] = pickled[lastOp.file]
     /\ \A x \in 0..MaxFeature :
          /\ PredictCall(pred[lastOp.inst], x).table
               = PredictCall(pickled[lastOp.file], x).table
          /\ PredictCall(pred[lastOp.inst], x).raised
               = PredictCall(pickled[lastOp.file], x).raised

\* A previously trained Q has loaded the bundle a trained P saved, P's
\* components coming from another train call than Q's former ones
C8_Witness ==
  /\ lastOp.op = "load" /\ lastOp.restored /\ lastOp.inst = "Q"
  /\ lastOp.was_ready
  /\ pickled[lastOp.file].model # NoneObj
  /\ pickled[lastOp.file].model.fitted
  /\ pickled[lastOp.file].scaler.fitted
  /\ pred["P"] = pickled[lastOp.file]
  /\ PredictCall(pred["Q"], 1).raised = ""

\* C9: predict never refits: every predict call, successful or failing,
\* leaves model, scaler, label_encoder and feature_cols as the last train or
\* load left them.
C9_PredictNeverRefits ==
  \A i \in Predictors : pred[i] = lastFit[i]

\* A successful predict on a trained predictor
C9_Witness ==
  /\ lastOp.op = "predict" /\ lastOp.raised = ""
  /\ lastOp.table # <<>>
  /\ pred[lastOp.inst].scaler.fitted

Trained(p) == p.model # NoneObj /\ p.model.fitted

\* C10: under any interleaving of concurrent /api/refresh requests, the
\* predict call inside initialize_data is made on a predictor whose train has
\* completed, and no train and predict run at the same time on the same
\* BurnoutPredictor instance.
C10_AccessSerialized ==
  \A t \in Threads :
    pc[t] \in PredictSteps =>
      /\ Trained(heap[self[t]])
      /\ \A u \in Threads \ {t} :
           ~(pc[u] \in TrainSteps /\ self[u] = self[t])
============================================================================
